---- MODULE Spec2Model ----
(***************************************************************************)
(* Model of the route optimizer of sm64-route-optimizer:                   *)
(*   src/src/optimize.py          get_optimal_route,                       *)
(*                                add_non_special_stars_to_star_set,       *)
(*                                get_valid_special_star_partitions        *)
(*   src/src/optimize_helpers.py  get_topological_sort_of_prerequisites,   *)
(*                                find_descendants                         *)
(*   src/src/util.py              the builders of the optimizer's inputs   *)
(*                                                                         *)
(* Python dicts keep insertion order, and the code iterates over them, so  *)
(* a dict is a sequence of entries here.  Times are floats in the source;  *)
(* the model draws integer times and even recorded times for 100 coin      *)
(* stars, for which the source's halving (x / 2) is exact as it is in      *)
(* binary floating point.                                                  *)
(***************************************************************************)
EXTENDS Integers, Sequences, FiniteSets, TLC

(* Number of stars in a route: 70 in the source, scaled down here. *)
NUM_STARS_IN_ROUTE == 3

(* Recorded times of a star with times are 1..MaxTime (twice that for a
   100 coin star). *)
MaxTime == 2

(* A star requires no stars, or MaxRequired stars. *)
MaxRequired == 2

STAR_DDD1_ID == "DDD1"

STAR_DDD_100_ID == "DDD_100"

(* Python's None *)
None == "None"

(* The stars of the model: DDD1 and WDW1, each with a 100 coin star that a
   configuration may combine with it, and three stars of BOB. *)
StarIds == {"BOB1", "BOB2", "BOB3", "DDD1", "DDD_100", "WDW1", "WDW_100"}

(* The 100 coin star IDs a configuration can list. *)
All100CoinStarIds == {"DDD_100", "WDW_100"}

(* Python's order on the ID strings ('1' sorts before '_'). *)
IdOrder == <<"BOB1", "BOB2", "BOB3", "DDD1", "DDD_100", "WDW1", "WDW_100">>

IdRank(id) == CHOOSE i \in 1..Len(IdOrder) : IdOrder[i] = id

ALL_LOCATIONS == {"basement", "courtyard", "lobby", "tippy", "upstairs"}

UPPER_LEVEL_LOCATIONS == {"tippy", "upstairs"}

(* star_locations_dict: a star's location is that of its course; a 100 coin
   star is a copy of the star it is combined with, in the same course. *)
star_locations_dict ==
    [id \in StarIds |->
        CASE id \in {"BOB1", "BOB2", "BOB3"} -> "lobby"
          [] id \in {"DDD1", "DDD_100"} -> "basement"
          [] OTHER -> "upstairs"]

-----------------------------------------------------------------------------
(* Sequences and sets *)

Range(s) == {s[i] : i \in 1..Len(s)}

(* the sum of f[x] over the x of S *)
RECURSIVE SetSum(_, _)
SetSum(S, f) ==
    IF S = {} THEN 0
    ELSE LET x == CHOOSE y \in S : TRUE IN f[x] + SetSum(S \ {x}, f)

Max2(a, b) == IF a >= b THEN a ELSE b

-----------------------------------------------------------------------------
(* Dicts as sequences of entries [key, value] in insertion order *)

DictKeys(d) == [i \in 1..Len(d) |-> d[i].key]

DictHas(d, k) == \E i \in 1..Len(d) : d[i].key = k

DictGet(d, k) == d[CHOOSE i \in 1..Len(d) : d[i].key = k].value

DictValues(d) == {d[i].value : i \in 1..Len(d)}

(* d[k] = v for a key that may or may not be present *)
DictSet(d, k, v) ==
    IF DictHas(d, k)
    THEN [i \in 1..Len(d) |-> IF d[i].key = k THEN [key |-> k, value |-> v] ELSE d[i]]
    ELSE Append(d, [key |-> k, value |-> v])

-----------------------------------------------------------------------------
(* util.get_adjacency_list_dict_from_prerequisites_dict *)

RECURSIVE AddDependant(_, _, _, _)
AddDependant(adj, dependant, prerequisites, j) ==
    IF j > Len(prerequisites) THEN adj
    ELSE LET p == prerequisites[j]
             next == IF DictHas(adj, p)
                     THEN DictSet(adj, p, Append(DictGet(adj, p), dependant))
                     ELSE DictSet(adj, p, <<dependant>>)
         IN AddDependant(next, dependant, prerequisites, j + 1)

RECURSIVE BuildAdjacency(_, _, _)
BuildAdjacency(prerequisites_dict, i, adj) ==
    IF i > Len(prerequisites_dict) THEN adj
    ELSE BuildAdjacency(prerequisites_dict, i + 1,
             AddDependant(adj, prerequisites_dict[i].key,
                          prerequisites_dict[i].value, 1))

get_adjacency_list_dict_from_prerequisites_dict(prerequisites_dict) ==
    BuildAdjacency(prerequisites_dict, 1, <<>>)

-----------------------------------------------------------------------------
(* optimize_helpers.get_topological_sort_of_prerequisites (Kahn) *)

(* in_degree_dict: a defaultdict(int), one count per edge into a star *)
InDegrees(adj) ==
    [id \in StarIds |->
        Cardinality({e \in (1..Len(adj)) \X (1..Cardinality(StarIds)) :
                        /\ e[2] <= Len(adj[e[1]].value)
                        /\ adj[e[1]].value[e[2]] = id})]

(* a queue that starts with every prerequisite, whatever its in-degree *)
AllKeysQueued(adj, in_degree, i) == DictKeys(adj)

(* deque(prerequisite for prerequisite in dict if in_degree == 0) *)
RECURSIVE InitialQueue(_, _, _)
InitialQueue(adj, in_degree, i) ==
    IF i > Len(adj) THEN <<>>
    ELSE (IF in_degree[adj[i].key] = 0 THEN <<adj[i].key>> ELSE <<>>)
         \o InitialQueue(adj, in_degree, i + 1)

(* the for loop over the dependants of the popped prerequisite *)
RECURSIVE RemoveFromGraph(_, _, _, _, _)
RemoveFromGraph(adj, dependants, j, in_degree, queue) ==
    IF j > Len(dependants) THEN [in_degree |-> in_degree, queue |-> queue]
    ELSE LET d == dependants[j]
             deg == [in_degree EXCEPT ![d] = @ - 1]
             q == IF deg[d] = 0 /\ DictHas(adj, d) THEN <<d>> \o queue ELSE queue
         IN RemoveFromGraph(adj, dependants, j + 1, deg, q)

(* the while loop: queue.pop() takes the right end, appendleft the left *)
RECURSIVE KahnLoop(_, _, _, _)
KahnLoop(adj, in_degree, queue, stack) ==
    IF queue = <<>> THEN stack
    ELSE LET prerequisite == queue[Len(queue)]
             rest == SubSeq(queue, 1, Len(queue) - 1)
             r == RemoveFromGraph(adj, DictGet(adj, prerequisite), 1, in_degree, rest)
         IN KahnLoop(adj, r.in_degree, r.queue, Append(stack, prerequisite))

get_topological_sort_of_prerequisites(adj) ==
    KahnLoop(adj, InDegrees(adj), InitialQueue(adj, InDegrees(adj), 1), <<>>)

-----------------------------------------------------------------------------
(* optimize_helpers.find_descendants: the depth first traversal of
   _find_descendants.  functools.cache wraps the inner function, which is
   created anew by every call of find_descendants. *)

(* the for loop over the dependants of the popped star *)
RECURSIVE VisitDependants(_, _, _, _, _)
VisitDependants(dependants, j, alts, descendants, stack) ==
    IF j > Len(dependants) THEN [descendants |-> descendants, stack |-> stack]
    ELSE LET d == dependants[j]
         IN IF d \in descendants
            THEN VisitDependants(dependants, j + 1, alts, descendants, stack)
            ELSE VisitDependants(dependants, j + 1, alts,
                     descendants \cup {d}
                         \cup (IF DictHas(alts, d) THEN {DictGet(alts, d)} ELSE {}),
                     Append(stack, d))

RECURSIVE DescendantsLoop(_, _, _, _)
DescendantsLoop(adj, alts, descendants, stack) ==
    IF stack = <<>> THEN descendants
    ELSE LET current_star_id == stack[Len(stack)]
             rest == SubSeq(stack, 1, Len(stack) - 1)
         IN IF DictHas(adj, current_star_id)
            THEN LET r == VisitDependants(DictGet(adj, current_star_id), 1, alts,
                                          descendants, rest)
                 IN DescendantsLoop(adj, alts, r.descendants, r.stack)
            ELSE DescendantsLoop(adj, alts, descendants, rest)

(* a find_descendants that stops at the dependants of the star *)
DirectDependantsOnly(star_id, adj, alts) ==
    IF DictHas(adj, star_id) THEN Range(DictGet(adj, star_id)) ELSE {}

(* a find_descendants that finds none *)
NoDescendantsFound(star_id, adj, alts) == {}

find_descendants(star_id, adj, alts) ==
    DescendantsLoop(adj, alts, {}, <<star_id>>)

-----------------------------------------------------------------------------
(* optimize.get_valid_special_star_partitions *)

(* [base_star for base_star in base_star_alts_dict
    if base_star not in adjacency_list_dict] *)
RECURSIVE remaining_base_stars_with_alternatives(_, _, _)
remaining_base_stars_with_alternatives(adj, alts, i) ==
    IF i > Len(alts) THEN <<>>
    ELSE (IF DictHas(adj, alts[i].key) THEN <<>> ELSE <<alts[i].key>>)
         \o remaining_base_stars_with_alternatives(adj, alts, i + 1)

ordered_base_special_stars(adj, alts) ==
    get_topological_sort_of_prerequisites(adj)
        \o remaining_base_stars_with_alternatives(adj, alts, 1)

(* a _get_star_and_alternative_id_pairs that offers a star and its
   alternative whether or not the path has excluded them already *)
PairsIgnoringExcluded(base_star_id, excluded_star_id_set, alts, eligible_stars) ==
    LET alt == IF DictHas(alts, base_star_id) /\ DictGet(alts, base_star_id) \in eligible_stars
               THEN DictGet(alts, base_star_id)
               ELSE None
        base == IF base_star_id \notin eligible_stars THEN None ELSE base_star_id
    IN (IF base # None THEN << <<base, alt>> >> ELSE <<>>)
       \o (IF alt # None THEN << <<alt, base>> >> ELSE <<>>)

(* a _get_star_and_alternative_id_pairs that never offers the alternative
   as the main star *)
PairsWithoutAlternative(base_star_id, excluded_star_id_set, alts, eligible_stars) ==
    IF base_star_id \notin eligible_stars \/ base_star_id \in excluded_star_id_set
    THEN <<>>
    ELSE << <<base_star_id, None>> >>

(* _get_star_and_alternative_id_pairs: the pairs (main_id, alternative_id)
   of itertools.permutations((base, alternative)) whose main_id is not None *)
get_star_and_alternative_id_pairs(base_star_id, excluded_star_id_set, alts, eligible_stars) ==
    LET hundred_coin_alternative_star_id ==
            IF /\ DictHas(alts, base_star_id)
               /\ DictGet(alts, base_star_id) \in eligible_stars
               /\ DictGet(alts, base_star_id) \notin excluded_star_id_set
            THEN DictGet(alts, base_star_id)
            ELSE None
        base ==
            IF base_star_id \notin eligible_stars \/ base_star_id \in excluded_star_id_set
            THEN None
            ELSE base_star_id
    IN (IF base # None THEN << <<base, hundred_coin_alternative_star_id>> >> ELSE <<>>)
       \o (IF hundred_coin_alternative_star_id # None
           THEN << <<hundred_coin_alternative_star_id, base>> >>
           ELSE <<>>)

(* g holds what _generate_valid_partitions_recursive reads from the outer
   function: ordered_base_special_stars, adjacency_list_dict,
   base_star_alts_dict and eligible_stars. *)
RECURSIVE generate_valid_partitions_recursive(_, _, _, _)
RECURSIVE IncludeBranches(_, _, _, _, _, _)

(* an include branch that leaves the mutually exclusive star undecided *)
IncludeBranchExcludedUnchanged(excluded, excluded_star_id) == excluded

(* next_excluded of an include branch: the excluded set and the mutually
   exclusive star, if there is one *)
IncludeBranchExcluded(excluded, excluded_star_id) ==
    excluded \cup (IF excluded_star_id # None THEN {excluded_star_id} ELSE {})

(* the for loop over the pairs: include main_id, exclude its alternative *)
IncludeBranches(g, pairs, k, star_idx, included, excluded) ==
    IF k > Len(pairs) THEN <<>>
    ELSE LET next_included == included \cup {pairs[k][1]}
             next_excluded == IncludeBranchExcluded(excluded, pairs[k][2])
         IN generate_valid_partitions_recursive(g, star_idx + 1, next_included,
                                                next_excluded)
            \o IncludeBranches(g, pairs, k + 1, star_idx, included, excluded)

(* an exclude branch that excludes the star and its alternative, and leaves
   the descendants alone *)
ExcludeBranchWithoutDescendants(g, current_star_id, excluded) ==
    excluded \cup {current_star_id}
        \cup (IF DictHas(g.alts, current_star_id)
              THEN {DictGet(g.alts, current_star_id)}
              ELSE {})

(* the exclude branch: the current star, its descendants and its 100 coin
   alternative join the excluded set *)
ExcludeBranchExcluded(g, current_star_id, excluded) ==
    excluded \cup {current_star_id}
        \cup find_descendants(current_star_id, g.adj, g.alts)
        \cup (IF DictHas(g.alts, current_star_id)
              THEN {DictGet(g.alts, current_star_id)}
              ELSE {})

(* star_idx counts from 0 as in the source; the result is the list of the
   partitions appended to valid_partitions, in the order of the appends.
   For DDD1 the source calls itself on the next index and has no return
   after that call, so the include and exclude branches run for DDD1 too. *)
generate_valid_partitions_recursive(g, star_idx, included, excluded) ==
    IF star_idx >= Len(g.ordered)
    THEN << <<included, excluded>> >>
    ELSE LET current_star_id == g.ordered[star_idx + 1]
             ddd1 == IF current_star_id = STAR_DDD1_ID
                     THEN generate_valid_partitions_recursive(
                              g, star_idx + 1, included, excluded)
                     ELSE <<>>
             include == IncludeBranches(
                            g,
                            get_star_and_alternative_id_pairs(
                                current_star_id, excluded, g.alts, g.eligible_stars),
                            1, star_idx, included, excluded)
             exclude == generate_valid_partitions_recursive(
                            g, star_idx + 1, included,
                            ExcludeBranchExcluded(g, current_star_id, excluded))
         IN ddd1 \o include \o exclude

(* a final loop that starts the recursion from an empty included set *)
RootBranchesFromEmpty(g, pairs, k) ==
    generate_valid_partitions_recursive(g, 0, {}, {})

(* the final loop: one enumeration per way of including DDD1 or its
   100 coin alternative *)
RECURSIVE RootBranches(_, _, _)
RootBranches(g, pairs, k) ==
    IF k > Len(pairs) THEN <<>>
    ELSE generate_valid_partitions_recursive(
             g, 0, {pairs[k][1]},
             IF pairs[k][2] = None THEN {} ELSE {pairs[k][2]})
         \o RootBranches(g, pairs, k + 1)

get_valid_special_star_partitions(adj, alts, eligible_stars) ==
    RootBranches([ordered |-> ordered_base_special_stars(adj, alts), adj |-> adj,
                  alts |-> alts, eligible_stars |-> eligible_stars],
                 get_star_and_alternative_id_pairs(STAR_DDD1_ID, {}, alts, eligible_stars),
                 1)

-----------------------------------------------------------------------------
(* optimize.add_non_special_stars_to_star_set *)

(* Python's order on the tuples (time, star_id) *)
TupleLess(a, b) == a[1] < b[1] \/ (a[1] = b[1] /\ IdRank(a[2]) < IdRank(b[2]))

(* and on the heap's tuples (stars_required, (time, star_id)) *)
HeapLess(a, b) == a[1] < b[1] \/ (a[1] = b[1] /\ TupleLess(a[2], b[2]))

(* heap[0], the entry heapq.heappop returns *)
HeapTop(heap) == CHOOSE h \in heap : \A g \in heap \ {h} : HeapLess(h, g)

(* mult = 2 if star_id in hundred_coin_star_ids else 1 *)
Mult(star_id, hundred_coin_star_ids) ==
    IF star_id \in hundred_coin_star_ids THEN 2 ELSE 1

(* a skip test that lets excluded stars through *)
SkipStarIgnoringExcluded(star_id, included_set, excluded_set, allowed_locations) ==
    \/ star_id \in included_set
    \/ star_locations_dict[star_id] \notin allowed_locations

(* the skip test of the scan: already included or excluded, or from a
   location that is not allowed *)
SkipStar(star_id, included_set, excluded_set, allowed_locations) ==
    \/ star_id \in included_set
    \/ star_id \in excluded_set
    \/ star_locations_dict[star_id] \notin allowed_locations

(* The inner while loop, entered with star_time_tuple_to_add = None: scan
   star_time_tuples from star_time_tuples_idx (counted from 0) until a star
   whose requirement is met, pushing the others on the heap.  a holds the
   arguments of the call that the loops do not change. *)
RECURSIVE ScanStarTimeTuples(_, _, _, _, _)
ScanStarTimeTuples(a, star_time_tuples_idx, heap, star_count, included_set) ==
    IF star_time_tuples_idx >= Len(a.star_time_tuples)
    THEN [raised |-> TRUE, idx |-> star_time_tuples_idx, heap |-> heap,
          tuple |-> <<0, None>>]
    ELSE LET star_time_tuple == a.star_time_tuples[star_time_tuples_idx + 1]
             star_id == star_time_tuple[2]
             num_stars_required == a.num_stars_required_dict[star_id]
         IN IF SkipStar(star_id, included_set, a.excluded_set, a.allowed_locations)
            THEN ScanStarTimeTuples(a, star_time_tuples_idx + 1, heap, star_count,
                                    included_set)
            ELSE IF num_stars_required <= star_count
            THEN [raised |-> FALSE, idx |-> star_time_tuples_idx + 1, heap |-> heap,
                  tuple |-> star_time_tuple]
            ELSE ScanStarTimeTuples(a, star_time_tuples_idx + 1,
                     heap \cup {<<num_stars_required, star_time_tuple>>},
                     star_count, included_set)

(* a test of the heap that forgets the requirement of its top entry *)
HeapReadyAlways(heap, star_count) == heap # {}

(* if heap and heap[0][STAR_REQUIREMENT_INDEX] <= star_count *)
HeapReady(heap, star_count) == heap # {} /\ HeapTop(heap)[1] <= star_count

(* The outer while loop.  The result tells whether InsufficientRemainingStars
   was raised, and what the call had computed by then; added lists the stars
   added, each with the star count and the included set at the moment it
   was added. *)
RECURSIVE AddStarsLoop(_, _, _, _, _, _, _)
AddStarsLoop(a, total_time, star_count, heap, star_time_tuples_idx, included_set, added) ==
    IF ~(star_count < a.max_star_count)
    THEN [raised |-> FALSE, total_time |-> total_time, included_set |-> included_set,
          star_count |-> star_count, idx |-> star_time_tuples_idx, heap |-> heap,
          added |-> added]
    ELSE LET from_heap == HeapReady(heap, star_count)
             scan == IF from_heap
                     THEN [raised |-> FALSE, idx |-> star_time_tuples_idx,
                           heap |-> heap \ {HeapTop(heap)}, tuple |-> HeapTop(heap)[2]]
                     ELSE ScanStarTimeTuples(a, star_time_tuples_idx, heap, star_count,
                                             included_set)
         IN IF scan.raised
            THEN [raised |-> TRUE, total_time |-> total_time,
                  included_set |-> included_set, star_count |-> star_count,
                  idx |-> scan.idx, heap |-> scan.heap, added |-> added]
            ELSE LET time_to_add == scan.tuple[1]
                     star_id_to_add == scan.tuple[2]
                     mult == Mult(star_id_to_add, a.hundred_coin_star_ids)
                 IN AddStarsLoop(a, total_time + mult * time_to_add, star_count + mult,
                        scan.heap, scan.idx, included_set \cup {star_id_to_add},
                        Append(added, [star_id |-> star_id_to_add,
                                       star_count |-> star_count,
                                       included_set |-> included_set,
                                       from_heap |-> from_heap]))

add_non_special_stars_to_star_set(starting_time, starting_star_count, max_star_count, allowed_locations, included_set, excluded_set, tuples, hundred_coin_star_ids, required) ==
    AddStarsLoop([max_star_count |-> max_star_count,
                  allowed_locations |-> allowed_locations,
                  excluded_set |-> excluded_set,
                  star_time_tuples |-> tuples,
                  hundred_coin_star_ids |-> hundred_coin_star_ids,
                  num_stars_required_dict |-> required],
                 starting_time, starting_star_count, {}, 0, included_set, <<>>)

-----------------------------------------------------------------------------
(* optimize.get_optimal_route *)

(* hundred_coin_star_ids = set(base_star_alts_dict.values()) *)
hundred_coin_star_ids(alts) == DictValues(alts)

(* a first loop that leaves the times as recorded *)
TimesNotHalved(tuples, alts) == tuples

(* the first loop: half the time of each 100 coin star, in place *)
HalveHundredCoinStarTimes(tuples, alts) ==
    [idx \in 1..Len(tuples) |->
        IF tuples[idx][2] \in hundred_coin_star_ids(alts)
        THEN <<tuples[idx][1] \div 2, tuples[idx][2]>>
        ELSE tuples[idx]]

(* a list left in the order it was passed in *)
TuplesNotSorted(tuples) == tuples

(* star_time_tuples.sort() *)
RECURSIVE SortTuples(_)
SortTuples(tuples) ==
    IF tuples = <<>> THEN <<>>
    ELSE LET i == CHOOSE k \in 1..Len(tuples) :
                      \A j \in 1..Len(tuples) : j = k \/ TupleLess(tuples[k], tuples[j])
                                                      \/ (tuples[j] = tuples[k] /\ k < j)
         IN <<tuples[i]>> \o SortTuples(SubSeq(tuples, 1, i - 1)
                                        \o SubSeq(tuples, i + 1, Len(tuples)))

(* util.build_star_times_dict_from_star_time_tuples; a later tuple of the
   same star replaces an earlier one *)
build_star_times_dict_from_star_time_tuples(tuples) ==
    [id \in {tuples[i][2] : i \in 1..Len(tuples)} |->
        tuples[CHOOSE i \in 1..Len(tuples) :
                   /\ tuples[i][2] = id
                   /\ \A j \in (i + 1)..Len(tuples) : tuples[j][2] # id][1]]

(* starting_total_time of the stars already in the set *)
StartingTotalTime(star_ids_set, times_dict, alts) ==
    SetSum(star_ids_set,
           [id \in star_ids_set |-> Mult(id, hundred_coin_star_ids(alts)) * times_dict[id]])

(* starting_star_count *)
StartingStarCount(star_ids_set, alts) ==
    SetSum(star_ids_set, [id \in star_ids_set |-> Mult(id, hundred_coin_star_ids(alts))])

(* num_upper_level_stars: the loop adds 1 for each star of the set whose
   location is on the upper levels *)
NumUpperLevelStars(star_ids_set) ==
    Cardinality({id \in star_ids_set : star_locations_dict[id] \in UPPER_LEVEL_LOCATIONS})

(* star_count_to_reach_from_non_upper_levels *)
StarCountToReachFromNonUpperLevels(max_num_upper, num_upper_level_stars) ==
    (NUM_STARS_IN_ROUTE - max_num_upper) + num_upper_level_stars

(* a second call that starts from the count of the partition's stars *)
SecondStartingStarCountOfPartition(starting_star_count, star_count_to_reach) ==
    starting_star_count

(* the starting star count handed to the second call *)
SecondStartingStarCount(starting_star_count, star_count_to_reach) ==
    Max2(starting_star_count, star_count_to_reach)

(* The body of the loop over the partitions, up to the update of the best
   route: status is "skipped" (continue), "insufficient" (the except clause)
   or "completed".  When the first call returned, the record also holds the
   set it returned and the starting star count handed to the second call. *)
PartitionTrial(star_ids_set, excluded_set, tuples, times_dict, max_num_upper, alts, required) ==
    LET hundred == hundred_coin_star_ids(alts)
        starting_total_time == StartingTotalTime(star_ids_set, times_dict, alts)
        starting_star_count == StartingStarCount(star_ids_set, alts)
        num_upper_level_stars == NumUpperLevelStars(star_ids_set)
        reach == StarCountToReachFromNonUpperLevels(max_num_upper, num_upper_level_stars)
        first == add_non_special_stars_to_star_set(
                     starting_total_time, starting_star_count, reach,
                     ALL_LOCATIONS \ UPPER_LEVEL_LOCATIONS,
                     star_ids_set, excluded_set, tuples, hundred, required)
        second == add_non_special_stars_to_star_set(
                      first.total_time,
                      SecondStartingStarCount(starting_star_count, reach),
                      NUM_STARS_IN_ROUTE, ALL_LOCATIONS,
                      first.included_set, excluded_set, tuples, hundred, required)
        base == [included |-> star_ids_set, excluded |-> excluded_set,
                 starting_star_count |-> starting_star_count,
                 num_upper_level_stars |-> num_upper_level_stars]
        calls == [first_star_ids_set |-> first.included_set,
                  second_starting_star_count |->
                      SecondStartingStarCount(starting_star_count, reach)]
    IN IF num_upper_level_stars > max_num_upper
       THEN [status |-> "skipped", phase |-> 0, total_time |-> starting_total_time,
             star_ids_set |-> star_ids_set] @@ base
       ELSE IF first.raised
       THEN [status |-> "insufficient", phase |-> 1, total_time |-> first.total_time,
             star_ids_set |-> first.included_set] @@ base
       ELSE IF second.raised
       THEN [status |-> "insufficient", phase |-> 2, total_time |-> second.total_time,
             star_ids_set |-> second.included_set] @@ calls @@ base
       ELSE [status |-> "completed", phase |-> 2, total_time |-> second.total_time,
             star_ids_set |-> second.included_set] @@ calls @@ base

-----------------------------------------------------------------------------
(* The arguments main hands to get_optimal_route *)

(* a star without times *)
NoTime == 0 - 1

(* The prerequisites tables of the model (dependant -> its prerequisites):
   none; WDW1 before BOB1; the chain DDD1, WDW1, BOB1, in which DDD1 is a
   key of the adjacency lists. *)
PrerequisitesChoices ==
    { <<>>,
      << [key |-> "BOB1", value |-> <<"WDW1">>] >>,
      << [key |-> "BOB1", value |-> <<"WDW1">>],
         [key |-> "WDW1", value |-> <<"DDD1">>] >> }

(* util.build_base_star_alts_dict over the 100 coin stars the configuration
   lists, each combined with the first star of its course *)
BaseStarAltsChoices ==
    { <<>>,
      << [key |-> "DDD1", value |-> "DDD_100"] >>,
      << [key |-> "WDW1", value |-> "WDW_100"] >>,
      << [key |-> "DDD1", value |-> "DDD_100"], [key |-> "WDW1", value |-> "WDW_100"] >> }

(* The recorded times of a star that is not a 100 coin star: none, or a
   time in 1..MaxTime *)
StarTimeChoices == {NoTime} \cup (1..MaxTime)

(* The recorded times of a 100 coin star: none if the configuration does not
   list it, else none, or twice the shortest or twice the longest time of
   the other stars *)
HundredCoinStarTimeChoices(id, alts) ==
    IF id \in DictValues(alts)
    THEN {NoTime} \cup {2 * t : t \in {1, MaxTime}}
    ELSE {NoTime}

(* The user of this family of inputs has no times for BOB2 and BOB3. *)
RecordedTimesChoices(alts) ==
    { [BOB1 |-> bob1, BOB2 |-> NoTime, BOB3 |-> NoTime, DDD1 |-> ddd1,
       DDD_100 |-> ddd_100, WDW1 |-> wdw1, WDW_100 |-> wdw_100] :
        bob1 \in StarTimeChoices, ddd1 \in StarTimeChoices, wdw1 \in StarTimeChoices,
        ddd_100 \in HundredCoinStarTimeChoices("DDD_100", alts),
        wdw_100 \in HundredCoinStarTimeChoices("WDW_100", alts) }

(* util.get_star_time_tuples and filter_star_time_tuples: the tuples
   (time, star_id) of the stars with times *)
RECURSIVE StarTimeTuplesFrom(_, _)
StarTimeTuplesFrom(times, i) ==
    IF i > Len(IdOrder) THEN <<>>
    ELSE (IF times[IdOrder[i]] = NoTime THEN <<>> ELSE << <<times[IdOrder[i]], IdOrder[i]>> >>)
         \o StarTimeTuplesFrom(times, i + 1)

(* util.build_num_stars_required_dict: the star count requirements of the
   courses, BOB1 requiring no stars or MaxRequired stars *)
NumStarsRequiredChoices ==
    { r \in [StarIds -> {0, MaxRequired}] :
        \A id \in StarIds \ {"BOB1"} : r[id] = 0 }

-----------------------------------------------------------------------------
(* The state of one call of get_optimal_route *)

VARIABLES
    star_time_tuples,            \* the caller's list, changed in place
    max_num_upper_level_stars,
    adjacency_list_dict,
    base_star_alts_dict,
    num_stars_required_dict,
    pc,                          \* "start", "loop", "returned", "raised"
    passed_star_time_tuples,     \* star_time_tuples as it was passed in
    star_times_dict,
    valid_partitions,            \* the list the for loop iterates over
    num_tried,                   \* the number of partitions the loop has handled
    best_time,
    best_star_ids_set,
    trials,                      \* what each iteration of the loop did
    caller_args,                 \* the arguments of a helper the caller calls directly
    caller_results               \* the results the caller has got so far

vars == <<star_time_tuples, max_num_upper_level_stars, adjacency_list_dict,
          base_star_alts_dict, num_stars_required_dict, pc,
          passed_star_time_tuples, star_times_dict, valid_partitions, num_tried,
          best_time, best_star_ids_set, trials, caller_args, caller_results>>

(* what belongs to the caller of get_optimal_route *)
caller == <<caller_args, caller_results>>

(* no helper called directly *)
NoArgs == [function |-> None]

inputs == <<max_num_upper_level_stars, adjacency_list_dict, base_star_alts_dict,
            num_stars_required_dict>>

(* math.inf: greater than the time of any set of stars *)
MathInf == Cardinality(StarIds) * 2 * MaxTime + 1

(* best_star_ids_set = None *)
NoStarIds == {None}

Init ==
    \E prerequisites_dict \in PrerequisitesChoices, alts \in BaseStarAltsChoices :
    \E times \in RecordedTimesChoices(alts), required \in NumStarsRequiredChoices :
    \E quota \in 0..NUM_STARS_IN_ROUTE :
        /\ star_time_tuples = StarTimeTuplesFrom(times, 1)
        /\ max_num_upper_level_stars = quota
        /\ adjacency_list_dict =
               get_adjacency_list_dict_from_prerequisites_dict(prerequisites_dict)
        /\ base_star_alts_dict = alts
        /\ num_stars_required_dict = required
        /\ pc = "start"
        /\ passed_star_time_tuples = <<>>
        /\ star_times_dict = <<>>
        /\ valid_partitions = <<>>
        /\ num_tried = 0
        /\ best_time = MathInf
        /\ best_star_ids_set = NoStarIds
        /\ trials = <<>>
        /\ caller_args = NoArgs
        /\ caller_results = <<>>

(* lines 69-97: half the 100 coin star times, sort, build the times
   dictionary and generate the partitions *)
Call ==
    /\ pc = "start"
    /\ LET sorted == SortTuples(HalveHundredCoinStarTimes(star_time_tuples,
                                                          base_star_alts_dict))
           times_dict == build_star_times_dict_from_star_time_tuples(sorted)
       IN /\ passed_star_time_tuples' = star_time_tuples
          /\ star_time_tuples' = sorted
          /\ star_times_dict' = times_dict
          /\ valid_partitions' = get_valid_special_star_partitions(
                 adjacency_list_dict, base_star_alts_dict, DOMAIN times_dict)
    /\ best_time' = MathInf
    /\ best_star_ids_set' = NoStarIds
    /\ num_tried' = 0
    /\ trials' = <<>>
    /\ pc' = "loop"
    /\ UNCHANGED <<inputs, caller>>

(* the iteration of the loop on the next partition *)
NextTrial ==
    PartitionTrial(valid_partitions[num_tried + 1][1], valid_partitions[num_tried + 1][2],
                   star_time_tuples, star_times_dict, max_num_upper_level_stars,
                   base_star_alts_dict, num_stars_required_dict)

(* lines 113-116: too many upper level stars, continue *)
TrialSkipped ==
    /\ pc = "loop"
    /\ num_tried < Len(valid_partitions)
    /\ LET trial == NextTrial
       IN /\ trial.status = "skipped"
          /\ trials' = Append(trials, trial)
    /\ num_tried' = num_tried + 1
    /\ UNCHANGED <<star_time_tuples, inputs, caller, pc, passed_star_time_tuples,
                   star_times_dict, valid_partitions, best_time, best_star_ids_set>>

(* a loop without the except clause: InsufficientRemainingStars leaves
   get_optimal_route *)
TrialInsufficientPropagates ==
    /\ pc = "loop"
    /\ num_tried < Len(valid_partitions)
    /\ LET trial == NextTrial
       IN /\ trial.status = "insufficient"
          /\ trials' = Append(trials, trial)
    /\ num_tried' = num_tried + 1
    /\ pc' = "propagated"
    /\ UNCHANGED <<star_time_tuples, inputs, caller, passed_star_time_tuples,
                   star_times_dict, valid_partitions, best_time, best_star_ids_set>>

(* lines 120-162: one of the two calls raised InsufficientRemainingStars,
   which the except clause catches (pass): the loop goes on to the next
   partition *)
TrialInsufficient ==
    /\ pc = "loop"
    /\ num_tried < Len(valid_partitions)
    /\ LET trial == NextTrial
       IN /\ trial.status = "insufficient"
          /\ trials' = Append(trials, trial)
    /\ num_tried' = num_tried + 1
    /\ UNCHANGED <<star_time_tuples, inputs, caller, pc, passed_star_time_tuples,
                   star_times_dict, valid_partitions, best_time, best_star_ids_set>>

(* a comparison that fails against the initial best_time *)
ImprovesOnFiniteBest(total_time, best) == total_time < best /\ best < MathInf

(* a comparison that lets a later route of the same time replace the best *)
ImprovesOrTies(total_time, best) == total_time <= best

(* total_time < best_time *)
Improves(total_time, best) == total_time < best

(* lines 129-159: both calls returned; update best time and stars set *)
TrialCompleted ==
    /\ pc = "loop"
    /\ num_tried < Len(valid_partitions)
    /\ LET trial == NextTrial
       IN /\ trial.status = "completed"
          /\ IF Improves(trial.total_time, best_time)
             THEN /\ best_time' = trial.total_time
                  /\ best_star_ids_set' = trial.star_ids_set
             ELSE UNCHANGED <<best_time, best_star_ids_set>>
          /\ trials' = Append(trials, trial)
    /\ num_tried' = num_tried + 1
    /\ UNCHANGED <<star_time_tuples, inputs, caller, pc, passed_star_time_tuples,
                   star_times_dict, valid_partitions>>

(* lines 165-166: return (best_star_ids_set, best_time) *)
Return ==
    /\ pc = "loop"
    /\ num_tried = Len(valid_partitions)
    /\ best_star_ids_set # NoStarIds
    /\ pc' = "returned"
    /\ UNCHANGED <<star_time_tuples, inputs, caller, passed_star_time_tuples, star_times_dict,
                   valid_partitions, num_tried, best_time, best_star_ids_set, trials>>

(* lines 168-171: raise NoValidRoutePossible *)
RaiseNoValidRoutePossible ==
    /\ pc = "loop"
    /\ num_tried = Len(valid_partitions)
    /\ best_star_ids_set = NoStarIds
    /\ pc' = "raised"
    /\ UNCHANGED <<star_time_tuples, inputs, caller, passed_star_time_tuples, star_times_dict,
                   valid_partitions, num_tried, best_time, best_star_ids_set, trials>>

Next ==
    \/ Call
    \/ TrialSkipped
    \/ TrialInsufficient
    \/ TrialCompleted
    \/ Return
    \/ RaiseNoValidRoutePossible

Spec == Init /\ [][Next]_vars

-----------------------------------------------------------------------------
(* add_non_special_stars_to_star_set called on its own, with arguments that
   get_optimal_route need not produce: any starting count and target, and
   100 coin stars among the candidates *)

(* the variables of get_optimal_route other than pc *)
optimizer == <<star_time_tuples, inputs, passed_star_time_tuples, star_times_dict,
               valid_partitions, num_tried, best_time, best_star_ids_set, trials>>

(* get_optimal_route is not called *)
OptimizerNotCalled ==
    /\ star_time_tuples = <<>>
    /\ max_num_upper_level_stars = 0
    /\ adjacency_list_dict = <<>>
    /\ base_star_alts_dict = <<>>
    /\ num_stars_required_dict = [id \in StarIds |-> 0]
    /\ passed_star_time_tuples = <<>>
    /\ star_times_dict = <<>>
    /\ valid_partitions = <<>>
    /\ num_tried = 0
    /\ best_time = MathInf
    /\ best_star_ids_set = NoStarIds
    /\ trials = <<>>

(* the stars with times in these calls: BOB1, which may require stars, BOB2,
   the 100 coin star DDD_100 and WDW1 on the upper levels *)
AugStarIds == {"BOB1", "BOB2", "DDD_100", "WDW1"}

(* star_time_tuples of a call: the tuples of the stars with times, sorted *)
AugStarTimeTuplesChoices ==
    { SortTuples(StarTimeTuplesFrom(
          [id \in StarIds |-> IF id \in AugStarIds THEN times[id] ELSE NoTime], 1)) :
        times \in [AugStarIds -> StarTimeChoices] }

AugInit ==
    \E tuples \in AugStarTimeTuplesChoices, required \in NumStarsRequiredChoices :
    \E starting_star_count \in 0..NUM_STARS_IN_ROUTE, max_star_count \in 0..NUM_STARS_IN_ROUTE :
    \E allowed_locations \in {ALL_LOCATIONS \ UPPER_LEVEL_LOCATIONS, ALL_LOCATIONS} :
    \E included_set \in {{}, {"BOB2"}}, excluded_set \in {{}, {"WDW1"}} :
        /\ caller_args = [function |-> "add_non_special_stars_to_star_set",
                          starting_time |-> 0,
                          starting_star_count |-> starting_star_count,
                          max_star_count |-> max_star_count,
                          allowed_locations |-> allowed_locations,
                          included_set |-> included_set,
                          excluded_set |-> excluded_set,
                          star_time_tuples |-> tuples,
                          hundred_coin_star_ids |-> All100CoinStarIds,
                          num_stars_required_dict |-> required]
        /\ caller_results = <<>>
        /\ pc = "start"
        /\ OptimizerNotCalled

(* what the call computes *)
AugResult ==
    add_non_special_stars_to_star_set(
        caller_args.starting_time, caller_args.starting_star_count,
        caller_args.max_star_count, caller_args.allowed_locations,
        caller_args.included_set, caller_args.excluded_set,
        caller_args.star_time_tuples, caller_args.hundred_coin_star_ids,
        caller_args.num_stars_required_dict)

(* line 291: return (total_time, included_set) *)
AugReturns ==
    /\ pc = "start"
    /\ caller_args.function = "add_non_special_stars_to_star_set"
    /\ ~AugResult.raised
    /\ caller_results' = <<AugResult>>
    /\ pc' = "returned"
    /\ UNCHANGED <<optimizer, caller_args>>

(* lines 252-254: raise InsufficientRemainingStars *)
AugRaises ==
    /\ pc = "start"
    /\ caller_args.function = "add_non_special_stars_to_star_set"
    /\ AugResult.raised
    /\ caller_results' = <<AugResult>>
    /\ pc' = "raised"
    /\ UNCHANGED <<optimizer, caller_args>>

AugNext == AugReturns \/ AugRaises

AugSpec == AugInit /\ [][AugNext]_vars

-----------------------------------------------------------------------------
(* add_non_special_stars_to_star_set step by step: one action for each
   iteration of the outer while loop.  caller_results[1] holds the locals of
   the running call. *)

AugStepInit ==
    \E tuples \in AugStarTimeTuplesChoices, required \in NumStarsRequiredChoices :
    \E starting_star_count \in {0, 1}, max_star_count \in 0..NUM_STARS_IN_ROUTE :
    \E allowed_locations \in {ALL_LOCATIONS \ UPPER_LEVEL_LOCATIONS, ALL_LOCATIONS} :
    \E excluded_set \in {{}, {"WDW1"}} :
        /\ caller_args = [function |-> "add_non_special_stars_to_star_set",
                          starting_time |-> 0,
                          starting_star_count |-> starting_star_count,
                          max_star_count |-> max_star_count,
                          allowed_locations |-> allowed_locations,
                          included_set |-> {},
                          excluded_set |-> excluded_set,
                          star_time_tuples |-> tuples,
                          hundred_coin_star_ids |-> All100CoinStarIds,
                          num_stars_required_dict |-> required]
        /\ caller_results = <<>>
        /\ pc = "start"
        /\ OptimizerNotCalled

(* lines 228-238: total_time, star_count, heap and star_time_tuples_idx as
   set before the loop *)
AugEnter ==
    /\ pc = "start"
    /\ caller_args.function = "add_non_special_stars_to_star_set"
    /\ caller_results' = <<[total_time |-> caller_args.starting_time,
                            star_count |-> caller_args.starting_star_count,
                            heap |-> {},
                            star_time_tuples_idx |-> 0,
                            included_set |-> caller_args.included_set,
                            from_heap |-> FALSE]>>
    /\ pc' = "while"
    /\ UNCHANGED <<optimizer, caller_args>>

(* the locals of the running call *)
AugLocals == caller_results[1]

(* lines 242-276: the star this iteration is to add, popped from the heap or
   found by the scan of the list *)
AugStarToAdd ==
    IF HeapReady(AugLocals.heap, AugLocals.star_count)
    THEN [raised |-> FALSE, idx |-> AugLocals.star_time_tuples_idx,
          heap |-> AugLocals.heap \ {HeapTop(AugLocals.heap)},
          tuple |-> HeapTop(AugLocals.heap)[2]]
    ELSE ScanStarTimeTuples(caller_args, AugLocals.star_time_tuples_idx, AugLocals.heap,
                            AugLocals.star_count, AugLocals.included_set)

(* an iteration that adds the star and leaves star_count as it was *)
AugIterationKeepsCount ==
    /\ pc = "while"
    /\ AugLocals.star_count < caller_args.max_star_count
    /\ ~AugStarToAdd.raised
    /\ caller_results' =
           <<[total_time |-> AugLocals.total_time + AugStarToAdd.tuple[1],
              star_count |-> AugLocals.star_count,
              heap |-> AugStarToAdd.heap,
              star_time_tuples_idx |-> AugStarToAdd.idx,
              included_set |-> AugLocals.included_set \cup {AugStarToAdd.tuple[2]},
              from_heap |-> HeapReady(AugLocals.heap, AugLocals.star_count)]>>
    /\ UNCHANGED <<optimizer, caller_args, pc>>

(* lines 241-289: an iteration of the outer loop that adds a star *)
AugIterationAdds ==
    /\ pc = "while"
    /\ AugLocals.star_count < caller_args.max_star_count
    /\ ~AugStarToAdd.raised
    /\ LET time_to_add == AugStarToAdd.tuple[1]
           star_id_to_add == AugStarToAdd.tuple[2]
           mult == Mult(star_id_to_add, caller_args.hundred_coin_star_ids)
       IN caller_results' =
              <<[total_time |-> AugLocals.total_time + mult * time_to_add,
                 star_count |-> AugLocals.star_count + mult,
                 heap |-> AugStarToAdd.heap,
                 star_time_tuples_idx |-> AugStarToAdd.idx,
                 included_set |-> AugLocals.included_set \cup {star_id_to_add},
                 from_heap |-> HeapReady(AugLocals.heap, AugLocals.star_count)]>>
    /\ UNCHANGED <<optimizer, caller_args, pc>>

(* lines 249-254: the scan runs off the end of the list and raises
   InsufficientRemainingStars *)
AugIterationRaises ==
    /\ pc = "while"
    /\ AugLocals.star_count < caller_args.max_star_count
    /\ AugStarToAdd.raised
    /\ caller_results' = <<[AugLocals EXCEPT !.heap = AugStarToAdd.heap,
                                             !.star_time_tuples_idx = AugStarToAdd.idx,
                                             !.from_heap = FALSE]>>
    /\ pc' = "raised"
    /\ UNCHANGED <<optimizer, caller_args>>

(* lines 241 and 291: the loop condition fails, return *)
AugLoopExits ==
    /\ pc = "while"
    /\ ~(AugLocals.star_count < caller_args.max_star_count)
    /\ pc' = "returned"
    /\ UNCHANGED <<optimizer, caller_args, caller_results>>

AugStepNext ==
    \/ AugEnter
    \/ AugIterationAdds
    \/ AugIterationRaises
    \/ AugLoopExits

(* a call that has begun runs on: the code has no point at which it waits *)
AugStepSpec == AugStepInit /\ [][AugStepNext]_vars /\ WF_vars(AugStepNext)

-----------------------------------------------------------------------------
(* What the claims speak of, defined apart from the operators above *)

(* the route and the time get_optimal_route returned *)
Returned == pc = "returned"

(* the 100 coin alternatives of base_star_alts_dict *)
Alternates == {base_star_alts_dict[i].value : i \in 1..Len(base_star_alts_dict)}

(* the exclusivity pairs <<base, alternate>> *)
ExclusivityPairs ==
    {<<base_star_alts_dict[i].key, base_star_alts_dict[i].value>> :
        i \in 1..Len(base_star_alts_dict)}

(* a 100 coin alternative counts as two units, any other star as one *)
UnitWeight(id) == IF id \in Alternates THEN 2 ELSE 1

UnitCount(S) == SetSum(S, [id \in S |-> UnitWeight(id)])

(* the units of S from the restricted locations *)
UpperLevelUnits(S) ==
    UnitCount({id \in S : star_locations_dict[id] \in {"upstairs", "tippy"}})

(* the recorded time of a star, as passed to get_optimal_route *)
RecordedTime(id) ==
    passed_star_time_tuples[CHOOSE i \in 1..Len(passed_star_time_tuples) :
                                passed_star_time_tuples[i][2] = id][1]

EligibleStars == {passed_star_time_tuples[i][2] : i \in 1..Len(passed_star_time_tuples)}

(* the cost of a unit: half the recorded time for an alternative *)
UnitCost(id) == IF id \in Alternates THEN RecordedTime(id) \div 2 ELSE RecordedTime(id)

RouteCost(S) == SetSum(S, [id \in S |-> UnitWeight(id) * UnitCost(id)])

(* the stars of A can be added one by one, each when the running unit count
   has reached its requirement *)
RECURSIVE CanCollect(_, _)
CanCollect(count, A) ==
    \/ A = {}
    \/ \E id \in A : /\ num_stars_required_dict[id] <= count
                     /\ CanCollect(count + UnitWeight(id), A \ {id})

(* the selections that extend a partition to NUM_STARS_IN_ROUTE units with
   eligible stars that are not excluded, within the quota *)
FeasibleExtensions(included, excluded) ==
    { S \in SUBSET EligibleStars :
        /\ included \subseteq S
        /\ (S \ included) \cap excluded = {}
        /\ UnitCount(S) = NUM_STARS_IN_ROUTE
        /\ UpperLevelUnits(S) <= max_num_upper_level_stars
        /\ CanCollect(UnitCount(included), S \ included) }

(* the dependants of a star, and its transitive descendants *)
Dependants(id) ==
    UNION {Range(adjacency_list_dict[i].value) :
               i \in {j \in 1..Len(adjacency_list_dict) : adjacency_list_dict[j].key = id}}

RECURSIVE ReachableFrom(_, _)
ReachableFrom(frontier, seen) ==
    LET next == (UNION {Dependants(id) : id \in frontier}) \ seen
    IN IF next = {} THEN seen ELSE ReachableFrom(next, seen \cup next)

TransitiveDescendants(id) == ReachableFrom({id}, {})

(* get_valid_special_star_partitions has just returned its list; the loop
   has not yet handed any of its sets to add_non_special_stars_to_star_set *)
PartitionsReturned == pc = "loop" /\ num_tried = 0

-----------------------------------------------------------------------------
(* C1: every returned selection has total unit weight exactly
   NUM_STARS_IN_ROUTE (1 per ordinary star, 2 per 100 coin alternative). *)
C1_ReturnedUnitCountIsTarget ==
    Returned => UnitCount(best_star_ids_set) = NUM_STARS_IN_ROUTE

(* C2: every returned selection holds at most max_num_upper_level_stars
   units from the upper levels, an alternative counting as 2 units. *)
C2_ReturnedWithinQuota ==
    Returned => UpperLevelUnits(best_star_ids_set) <= max_num_upper_level_stars

(* C3: the returned total cost is minimal: no feasible extension of any
   generated partition costs strictly less than the returned time. *)
C3_ReturnedCostMinimal ==
    Returned =>
        \A i \in 1..Len(valid_partitions) :
            \A S \in FeasibleExtensions(valid_partitions[i][1], valid_partitions[i][2]) :
                RouteCost(S) >= best_time

(* C4: the returned total cost is the sum over the returned ids of unit
   weight times unit cost, an alternative contributing its recorded time. *)
C4_ReturnedCostIsSum ==
    Returned => best_time = RouteCost(best_star_ids_set)

(* C4 witness: a returned route made of an alternative, taken with the
   partition, and a star the greedy augmentation added. *)
C4_Witness ==
    /\ Returned
    /\ best_star_ids_set \cap Alternates # {}
    /\ \E i \in 1..Len(trials) :
           /\ trials[i].star_ids_set = best_star_ids_set
           /\ trials[i].included # best_star_ids_set

(* C5: at most one star of every exclusivity pair is in a returned
   selection. *)
C5_ReturnedExclusive ==
    Returned =>
        \A pair \in ExclusivityPairs :
            ~(pair[1] \in best_star_ids_set /\ pair[2] \in best_star_ids_set)

(* C5 witness: a returned route holding one star of a pair whose two stars
   are both eligible, with stars the greedy augmentation added. *)
C5_Witness ==
    /\ Returned
    /\ \E pair \in ExclusivityPairs :
           /\ pair[1] \in EligibleStars /\ pair[2] \in EligibleStars
           /\ pair[1] # STAR_DDD1_ID
           /\ (pair[1] \in best_star_ids_set \/ pair[2] \in best_star_ids_set)
    /\ \E i \in 1..Len(trials) :
           /\ trials[i].star_ids_set = best_star_ids_set
           /\ trials[i].included # best_star_ids_set

(* C6: NoValidRoutePossible is raised exactly when no partition trial
   completed (each was skipped or ended in InsufficientRemainingStars, or
   there was none); when a trial completed a selection is returned. *)
C6_RaisedIffNoTrialCompleted ==
    pc \in {"returned", "raised"} =>
        /\ Len(trials) = Len(valid_partitions)
        /\ pc = "raised" <=>
               \A i \in 1..Len(trials) : trials[i].status \in {"skipped", "insufficient"}
        /\ pc = "returned" <=>
               \E i \in 1..Len(trials) : trials[i].status = "completed"

(* C6 witness: NoValidRoutePossible raised after trials of which some were
   skipped and some ended in InsufficientRemainingStars. *)
C6_Witness ==
    /\ pc = "raised"
    /\ \E i, j \in 1..Len(trials) :
           trials[i].status = "skipped" /\ trials[j].status = "insufficient"

(* C7: InsufficientRemainingStars never leaves get_optimal_route: a trial
   that ends in it leaves best_time and best_star_ids_set unchanged and the
   loop running, and the call ends only after every partition was tried. *)
C7_InsufficientIsDiscarded ==
    /\ [][(/\ Len(trials') = Len(trials) + 1
           /\ trials'[Len(trials')].status = "insufficient")
          => /\ best_time' = best_time
             /\ best_star_ids_set' = best_star_ids_set
             /\ pc' = "loop"]_vars
    /\ [](pc \in {"loop", "returned", "raised", "start"})
    /\ [](pc \in {"returned", "raised"} => Len(trials) = Len(valid_partitions))

(* C7 witness: a trial that failed in its second call, after a completed
   trial had set the best route, and before a later trial. *)
C7_Witness ==
    \E i \in 2..Len(trials) :
        /\ trials[i].status = "insufficient"
        /\ trials[i].phase = 2
        /\ trials[i - 1].status = "completed"
        /\ best_star_ids_set = trials[i - 1].star_ids_set
        /\ i < Len(trials)

(* C8: the included and excluded sets of every returned partition are
   disjoint. *)
C8_PartitionsDisjoint ==
    PartitionsReturned =>
        \A i \in 1..Len(valid_partitions) :
            valid_partitions[i][1] \cap valid_partitions[i][2] = {}

(* C9: in every returned partition, every transitive descendant of every
   excluded id is excluded too. *)
C9_ExcludedDescendantsExcluded ==
    PartitionsReturned =>
        \A i \in 1..Len(valid_partitions) :
            \A id \in valid_partitions[i][2] :
                TransitiveDescendants(id) \subseteq valid_partitions[i][2]

(* the exclusivity partners of a star *)
Partners(id) ==
    {pair[2] : pair \in {q \in ExclusivityPairs : q[1] = id}}
        \cup {pair[1] : pair \in {q \in ExclusivityPairs : q[2] = id}}

(* C9 as amended: in every returned partition, every transitive descendant
   of an excluded id is excluded too, unless the id's exclusivity partner is
   included (the id was excluded in favour of its partner). *)
C9_ExcludedDescendantsExcludedAmended ==
    PartitionsReturned =>
        \A i \in 1..Len(valid_partitions) :
            \A id \in valid_partitions[i][2] :
                Partners(id) \cap valid_partitions[i][1] = {} =>
                    TransitiveDescendants(id) \subseteq valid_partitions[i][2]

(* C9 witness: a partition that excludes a star with descendants and its
   partner, next to a partition that includes the partner and leaves the
   descendants of the star open. *)
C9_Witness ==
    /\ PartitionsReturned
    /\ \E i, j \in 1..Len(valid_partitions) :
           \E id \in valid_partitions[i][2] \cap valid_partitions[j][2] :
               /\ TransitiveDescendants(id) # {}
               /\ Partners(id) # {}
               /\ Partners(id) \cap valid_partitions[i][1] = {}
               /\ Partners(id) \subseteq valid_partitions[j][1]
               /\ ~(TransitiveDescendants(id) \subseteq valid_partitions[j][2])

(* C10: no returned partition includes both stars of an exclusivity pair. *)
C10_PartitionsExclusive ==
    PartitionsReturned =>
        \A i \in 1..Len(valid_partitions) :
            \A pair \in ExclusivityPairs :
                ~(pair[1] \in valid_partitions[i][1] /\ pair[2] \in valid_partitions[i][1])

(* C10 witness: partitions for a pair whose two stars are both eligible, one
   including the base star and one including the alternative. *)
C10_Witness ==
    /\ PartitionsReturned
    /\ \E pair \in ExclusivityPairs :
           /\ pair[1] \in EligibleStars /\ pair[2] \in EligibleStars
           /\ \E i, j \in 1..Len(valid_partitions) :
                  /\ pair[1] \in valid_partitions[i][1]
                  /\ pair[2] \in valid_partitions[j][1]

-----------------------------------------------------------------------------
(* the alternate of a base star, or None *)
AlternateOf(id) ==
    IF \E pair \in ExclusivityPairs : pair[1] = id
    THEN (CHOOSE pair \in ExclusivityPairs : pair[1] = id)[2]
    ELSE None

(* C11: every returned partition includes DDD1 or its alternate, and no
   partition is returned when neither of the two is eligible. *)
C11_RootIncluded ==
    PartitionsReturned =>
        /\ \A i \in 1..Len(valid_partitions) :
               \/ STAR_DDD1_ID \in valid_partitions[i][1]
               \/ /\ AlternateOf(STAR_DDD1_ID) # None
                  /\ AlternateOf(STAR_DDD1_ID) \in valid_partitions[i][1]
        /\ (STAR_DDD1_ID \notin EligibleStars /\ AlternateOf(STAR_DDD1_ID) \notin EligibleStars)
               => valid_partitions = <<>>

(* C11 witness: with prerequisites, a partition that includes DDD1 and one
   that includes its alternate instead. *)
C11_Witness ==
    /\ PartitionsReturned
    /\ adjacency_list_dict # <<>>
    /\ \E i, j \in 1..Len(valid_partitions) :
           /\ STAR_DDD1_ID \in valid_partitions[i][1]
           /\ STAR_DDD1_ID \notin valid_partitions[j][1]
           /\ AlternateOf(STAR_DDD1_ID) \in valid_partitions[j][1]

(* the special base items: the prerequisites and the base stars with an
   alternate *)
SpecialBaseItems ==
    {adjacency_list_dict[i].key : i \in 1..Len(adjacency_list_dict)}
        \cup {pair[1] : pair \in ExclusivityPairs}

(* an assignment gives each special base item one of: include the item,
   include its alternate, exclude both *)
Assignments == [SpecialBaseItems -> {"include", "alternate", "exclude"}]

AssignedIncluded(a) ==
    {id \in SpecialBaseItems : a[id] = "include"}
        \cup {AlternateOf(id) : id \in {x \in SpecialBaseItems : a[x] = "alternate"}}
        \cup (IF STAR_DDD1_ID \in SpecialBaseItems THEN {} ELSE {STAR_DDD1_ID})

AssignedExcluded(a) == {id \in SpecialBaseItems : a[id] = "exclude"}

(* the alternates of the stars of X *)
AlternatesOf(X) == {AlternateOf(id) : id \in X} \ {None}

(* the descendants of the stars of X, and the descendants' alternates *)
DescendantsWithAlternates(X) ==
    LET D == UNION {TransitiveDescendants(id) : id \in X}
    IN D \cup AlternatesOf(D)

FeasibleAssignment(a) ==
    /\ \A id \in SpecialBaseItems : a[id] = "alternate" => AlternateOf(id) # None
    /\ AssignedIncluded(a) \subseteq EligibleStars
    /\ \/ STAR_DDD1_ID \in AssignedIncluded(a)
       \/ AlternateOf(STAR_DDD1_ID) \in AssignedIncluded(a)
    /\ AssignedIncluded(a) \cap DescendantsWithAlternates(AssignedExcluded(a)) = {}

(* the excluded set of the partition of an assignment: the excluded items
   and their alternates, their descendants and the descendants' alternates,
   and the eligible exclusivity partner of every included id *)
ExcludedOfAssignment(a) ==
    AssignedExcluded(a) \cup AlternatesOf(AssignedExcluded(a))
        \cup DescendantsWithAlternates(AssignedExcluded(a))
        \cup ((UNION {Partners(id) : id \in AssignedIncluded(a)}) \cap EligibleStars)

(* C12: the partition of every feasible assignment of the special base
   items is in the returned list. *)
C12_EveryFeasiblePartitionReturned ==
    PartitionsReturned =>
        \A a \in Assignments :
            FeasibleAssignment(a) =>
                \E i \in 1..Len(valid_partitions) :
                    valid_partitions[i] = <<AssignedIncluded(a), ExcludedOfAssignment(a)>>

(* C12 witness: a feasible assignment that includes an alternate and
   excludes an item with descendants, among at least three partitions. *)
C12_Witness ==
    /\ PartitionsReturned
    /\ Len(valid_partitions) >= 3
    /\ \E a \in Assignments :
           /\ FeasibleAssignment(a)
           /\ \E id \in SpecialBaseItems : a[id] = "alternate"
           /\ \E id \in SpecialBaseItems :
                  a[id] = "exclude" /\ TransitiveDescendants(id) # {}

-----------------------------------------------------------------------------
(* A caller that calls get_optimal_route a second time with the objects it
   passed to the first call.  star_time_tuples is the list the first call
   halved and sorted in place. *)

(* Recorded times of 100 coin stars that two halvings leave whole *)
TwiceRecordedTimesChoices(alts) ==
    { [id \in StarIds |->
          IF times[id] # NoTime /\ id \in All100CoinStarIds THEN 2 * times[id] ELSE times[id]] :
        times \in RecordedTimesChoices(alts) }

TwiceInit ==
    \E prerequisites_dict \in PrerequisitesChoices, alts \in BaseStarAltsChoices :
    \E times \in TwiceRecordedTimesChoices(alts) :
    \E quota \in {0, NUM_STARS_IN_ROUTE} :
        /\ star_time_tuples = StarTimeTuplesFrom(times, 1)
        /\ max_num_upper_level_stars = quota
        /\ adjacency_list_dict =
               get_adjacency_list_dict_from_prerequisites_dict(prerequisites_dict)
        /\ base_star_alts_dict = alts
        /\ num_stars_required_dict = [id \in StarIds |-> 0]
        /\ pc = "start"
        /\ passed_star_time_tuples = <<>>
        /\ star_times_dict = <<>>
        /\ valid_partitions = <<>>
        /\ num_tried = 0
        /\ best_time = MathInf
        /\ best_star_ids_set = NoStarIds
        /\ trials = <<>>
        /\ caller_args = NoArgs
        /\ caller_results = <<>>

(* the caller keeps the outcome of the first call and calls again *)
CallAgain ==
    /\ pc \in {"returned", "raised"}
    /\ caller_results = <<>>
    /\ caller_results' = <<[outcome |-> pc, star_ids_set |-> best_star_ids_set,
                            time |-> best_time]>>
    /\ pc' = "start"
    /\ UNCHANGED <<optimizer, caller_args>>

TwiceNext ==
    \/ Call
    \/ TrialSkipped
    \/ TrialInsufficient
    \/ TrialCompleted
    \/ Return
    \/ RaiseNoValidRoutePossible
    \/ CallAgain

TwiceSpec == TwiceInit /\ [][TwiceNext]_vars

-----------------------------------------------------------------------------
(* get_optimal_route on a configuration without prerequisites and without
   100 coin stars, with more than NUM_STARS_IN_ROUTE stars with times, all
   times different, and the quota at NUM_STARS_IN_ROUTE *)

(* the stars that are not 100 coin stars *)
PlainStarIds == StarIds \ All100CoinStarIds

(* times for more than NUM_STARS_IN_ROUTE of the stars, no two the same *)
DistinctTimesChoices ==
    { times \in [StarIds -> {NoTime} \cup (1..Cardinality(PlainStarIds))] :
        /\ \A id \in All100CoinStarIds : times[id] = NoTime
        /\ Cardinality({id \in StarIds : times[id] # NoTime}) > NUM_STARS_IN_ROUTE
        /\ \A a, b \in StarIds : (a # b /\ times[a] # NoTime) => times[a] # times[b] }

(* BOB1 requires no stars, MaxRequired stars or NUM_STARS_IN_ROUTE stars *)
ScenarioNumStarsRequiredChoices ==
    { r \in [StarIds -> {0, MaxRequired, NUM_STARS_IN_ROUTE}] :
        \A id \in StarIds \ {"BOB1"} : r[id] = 0 }

ScenarioInit ==
    \E times \in DistinctTimesChoices, required \in ScenarioNumStarsRequiredChoices :
        /\ star_time_tuples = StarTimeTuplesFrom(times, 1)
        /\ max_num_upper_level_stars = NUM_STARS_IN_ROUTE
        /\ adjacency_list_dict = <<>>
        /\ base_star_alts_dict = <<>>
        /\ num_stars_required_dict = required
        /\ pc = "start"
        /\ passed_star_time_tuples = <<>>
        /\ star_times_dict = <<>>
        /\ valid_partitions = <<>>
        /\ num_tried = 0
        /\ best_time = MathInf
        /\ best_star_ids_set = NoStarIds
        /\ trials = <<>>
        /\ caller_args = NoArgs
        /\ caller_results = <<>>

(* with these arguments no partition is skipped and no call of
   add_non_special_stars_to_star_set runs out of stars *)
ScenarioNext ==
    \/ Call
    \/ TrialCompleted
    \/ Return
    \/ RaiseNoValidRoutePossible

ScenarioSpec == ScenarioInit /\ [][ScenarioNext]_vars

-----------------------------------------------------------------------------
(* get_optimal_route on configurations whose prerequisites form chains and a
   diamond among the stars of BOB and WDW1, so that a star the recursion
   comes to may have been excluded as the descendant of an earlier one.
   Every star with times has the time 1 (a 100 coin star the recorded
   time 2). *)

ChainPrerequisitesChoices ==
    { << [key |-> "BOB2", value |-> <<"BOB1">>],
         [key |-> "BOB3", value |-> <<"BOB2">>] >>,
      << [key |-> "BOB1", value |-> <<"WDW1">>],
         [key |-> "BOB2", value |-> <<"BOB1">>] >>,
      << [key |-> "BOB2", value |-> <<"BOB1">>],
         [key |-> "BOB3", value |-> <<"BOB1">>],
         [key |-> "WDW1", value |-> <<"BOB2", "BOB3">>] >>,
      << [key |-> "WDW1", value |-> <<"DDD1">>],
         [key |-> "BOB1", value |-> <<"WDW1">>],
         [key |-> "BOB2", value |-> <<"BOB1">>] >> }

ChainRecordedTimesChoices(alts) ==
    { times \in [StarIds -> {NoTime, 1, 2}] :
        /\ \A id \in PlainStarIds : times[id] \in {NoTime, 1}
        /\ \A id \in All100CoinStarIds :
               times[id] \in (IF id \in DictValues(alts) THEN {NoTime, 2} ELSE {NoTime}) }

ChainInit ==
    \E prerequisites_dict \in ChainPrerequisitesChoices, alts \in BaseStarAltsChoices :
    \E times \in ChainRecordedTimesChoices(alts) :
    \E quota \in {0, NUM_STARS_IN_ROUTE} :
        /\ star_time_tuples = StarTimeTuplesFrom(times, 1)
        /\ max_num_upper_level_stars = quota
        /\ adjacency_list_dict =
               get_adjacency_list_dict_from_prerequisites_dict(prerequisites_dict)
        /\ base_star_alts_dict = alts
        /\ num_stars_required_dict = [id \in StarIds |-> 0]
        /\ pc = "start"
        /\ passed_star_time_tuples = <<>>
        /\ star_times_dict = <<>>
        /\ valid_partitions = <<>>
        /\ num_tried = 0
        /\ best_time = MathInf
        /\ best_star_ids_set = NoStarIds
        /\ trials = <<>>
        /\ caller_args = NoArgs
        /\ caller_results = <<>>

ChainSpec == ChainInit /\ [][Next]_vars

-----------------------------------------------------------------------------
(* get_optimal_route with course data in which the special stars require
   stars too: DDD1, WDW1, BOB1 and BOB2 each require no stars or MaxRequired
   stars, and a 100 coin star what the first star of its course requires.
   Every star with times has the time 1 (a 100 coin star the recorded
   time 2). *)

ThresholdNumStarsRequiredChoices ==
    { r \in [StarIds -> {0, MaxRequired}] :
        /\ r["BOB3"] = 0
        /\ r["DDD_100"] = r["DDD1"]
        /\ r["WDW_100"] = r["WDW1"] }

ThresholdRecordedTimesChoices(alts) ==
    { times \in [StarIds -> {NoTime, 1, 2}] :
        /\ \A id \in {"BOB1", "DDD1", "WDW1"} : times[id] = 1
        /\ times["BOB2"] \in {NoTime, 1}
        /\ times["BOB3"] = NoTime
        /\ \A id \in All100CoinStarIds :
               times[id] = (IF id \in DictValues(alts) THEN 2 ELSE NoTime) }

ThresholdInit ==
    \E prerequisites_dict \in PrerequisitesChoices, alts \in BaseStarAltsChoices :
    \E times \in ThresholdRecordedTimesChoices(alts) :
    \E required \in ThresholdNumStarsRequiredChoices :
    \E quota \in {0, NUM_STARS_IN_ROUTE} :
        /\ star_time_tuples = StarTimeTuplesFrom(times, 1)
        /\ max_num_upper_level_stars = quota
        /\ adjacency_list_dict =
               get_adjacency_list_dict_from_prerequisites_dict(prerequisites_dict)
        /\ base_star_alts_dict = alts
        /\ num_stars_required_dict = required
        /\ pc = "start"
        /\ passed_star_time_tuples = <<>>
        /\ star_times_dict = <<>>
        /\ valid_partitions = <<>>
        /\ num_tried = 0
        /\ best_time = MathInf
        /\ best_star_ids_set = NoStarIds
        /\ trials = <<>>
        /\ caller_args = NoArgs
        /\ caller_results = <<>>

ThresholdSpec == ThresholdInit /\ [][Next]_vars

-----------------------------------------------------------------------------
(* get_topological_sort_of_prerequisites and find_descendants called on
   their own, on the acyclic prerequisites of four stars *)

GraphStarIds == {"BOB1", "BOB2", "DDD1", "WDW1"}

(* an edge <<p, d>>: p is a prerequisite of d *)
GraphEdges == {e \in GraphStarIds \X GraphStarIds : e[1] # e[2]}

(* the stars reached from the stars of frontier along the edges of E *)
RECURSIVE EdgesReach(_, _, _)
EdgesReach(E, frontier, seen) ==
    LET next == {e[2] : e \in {x \in E : x[1] \in frontier}} \ seen
    IN IF next = {} THEN seen ELSE EdgesReach(E, next, seen \cup next)

AcyclicEdgeSets ==
    {E \in SUBSET GraphEdges : \A id \in GraphStarIds : id \notin EdgesReach(E, {id}, {})}

(* the stars of order that are in S, in that order *)
RECURSIVE Listed(_, _, _)
Listed(order, S, i) ==
    IF i > Len(order) THEN <<>>
    ELSE (IF order[i] \in S THEN <<order[i]>> ELSE <<>>) \o Listed(order, S, i + 1)

(* the prerequisites table of the configuration: an entry for each star
   with prerequisites, the tables being written in the given order *)
PrerequisitesDictFrom(E, order) ==
    LET dependants == Listed(order, {e[2] : e \in E}, 1)
    IN [k \in 1..Len(dependants) |->
           [key |-> dependants[k],
            value |-> Listed(order, {e[1] : e \in {x \in E : x[2] = dependants[k]}}, 1)]]

ReversedIdOrder == [i \in 1..Len(IdOrder) |-> IdOrder[Len(IdOrder) + 1 - i]]

GraphInit ==
    \E E \in AcyclicEdgeSets, order \in {IdOrder, ReversedIdOrder} :
    \E alts \in BaseStarAltsChoices :
        /\ caller_args =
               [function |-> "optimize_helpers",
                adjacency_list_dict |->
                    get_adjacency_list_dict_from_prerequisites_dict(
                        PrerequisitesDictFrom(E, order)),
                base_star_alts_dict |-> alts]
        /\ caller_results = <<>>
        /\ pc = "start"
        /\ OptimizerNotCalled

(* sorted_base_star_prerequisite_ids = get_topological_sort_of_prerequisites(...) *)
SortPrerequisites ==
    /\ pc = "start"
    /\ caller_args.function = "optimize_helpers"
    /\ caller_results' =
           <<[function |-> "get_topological_sort_of_prerequisites",
              value |-> get_topological_sort_of_prerequisites(
                            caller_args.adjacency_list_dict)]>>
    /\ pc' = "returned"
    /\ UNCHANGED <<optimizer, caller_args>>

(* find_descendants(star_id, adjacency_list_dict, base_star_alts_dict) *)
FindDescendants ==
    /\ pc = "start"
    /\ caller_args.function = "optimize_helpers"
    /\ \E star_id \in StarIds :
           caller_results' =
               <<[function |-> "find_descendants", star_id |-> star_id,
                  value |-> find_descendants(star_id, caller_args.adjacency_list_dict,
                                             caller_args.base_star_alts_dict)]>>
    /\ pc' = "returned"
    /\ UNCHANGED <<optimizer, caller_args>>

GraphNext == SortPrerequisites \/ FindDescendants

GraphSpec == GraphInit /\ [][GraphNext]_vars

-----------------------------------------------------------------------------
(* find_descendants called twice in one process, for the same star under two
   adjacency lists.  The decorator functools.cache is applied inside
   find_descendants (optimize_helpers.py 84-85): each call creates the inner
   function and its cache, calls it once and drops both on return, so the
   second call starts with no cache. *)

CacheStarIds == {"BOB1", "BOB2", "WDW1"}

(* the acyclic prerequisites among these stars *)
CacheEdgeSets == {E \in AcyclicEdgeSets : E \subseteq CacheStarIds \X CacheStarIds}

CacheInit ==
    \E E1 \in CacheEdgeSets, E2 \in CacheEdgeSets, star_id \in CacheStarIds :
    \E alts \in BaseStarAltsChoices :
        /\ caller_args =
               [function |-> "find_descendants",
                star_id |-> star_id,
                adjacency_list_dict |->
                    get_adjacency_list_dict_from_prerequisites_dict(
                        PrerequisitesDictFrom(E1, IdOrder)),
                later_adjacency_list_dict |->
                    get_adjacency_list_dict_from_prerequisites_dict(
                        PrerequisitesDictFrom(E2, IdOrder)),
                base_star_alts_dict |-> alts]
        /\ caller_results = <<>>
        /\ pc = "start"
        /\ OptimizerNotCalled

(* the first call: find_descendants(star_id, adjacency_list_dict, ...) *)
FindDescendantsFirst ==
    /\ pc = "start"
    /\ caller_args.function = "find_descendants"
    /\ caller_results' =
           <<find_descendants(caller_args.star_id, caller_args.adjacency_list_dict,
                              caller_args.base_star_alts_dict)>>
    /\ pc' = "called"
    /\ UNCHANGED <<optimizer, caller_args>>

(* a second call that is answered from a cache the first call left behind *)
FindDescendantsAgainFromCache ==
    /\ pc = "called"
    /\ caller_args.function = "find_descendants"
    /\ caller_results' = Append(caller_results, caller_results[1])
    /\ pc' = "returned"
    /\ UNCHANGED <<optimizer, caller_args>>

(* the second call, for the same star under the other adjacency lists *)
FindDescendantsAgain ==
    /\ pc = "called"
    /\ caller_args.function = "find_descendants"
    /\ caller_results' =
           Append(caller_results,
                  find_descendants(caller_args.star_id,
                                   caller_args.later_adjacency_list_dict,
                                   caller_args.base_star_alts_dict))
    /\ pc' = "returned"
    /\ UNCHANGED <<optimizer, caller_args>>

CacheNext == FindDescendantsFirst \/ FindDescendantsAgain

CacheSpec == CacheInit /\ [][CacheNext]_vars

-----------------------------------------------------------------------------
(* What the claims on add_non_special_stars_to_star_set speak of *)

(* the call has ended, by return or by InsufficientRemainingStars *)
AugEnded == caller_args.function = "add_non_special_stars_to_star_set" /\ Len(caller_results) = 1

AugReturned == AugEnded /\ pc = "returned"

AugRaised == AugEnded /\ pc = "raised"

(* the unit weight of a star in the call: 2 for a 100 coin star *)
AugUnitWeight(id) == IF id \in caller_args.hundred_coin_star_ids THEN 2 ELSE 1

AugUnitCount(S) == SetSum(S, [id \in S |-> AugUnitWeight(id)])

(* the stars the call added *)
AugAddedStars ==
    {caller_results[1].added[k].star_id : k \in 1..Len(caller_results[1].added)}

(* the candidates of the call: the stars of the list from an allowed
   location that are neither included nor excluded *)
AugCandidates ==
    {id \in {caller_args.star_time_tuples[k][2] : k \in 1..Len(caller_args.star_time_tuples)} :
        /\ star_locations_dict[id] \in caller_args.allowed_locations
        /\ id \notin caller_args.included_set
        /\ id \notin caller_args.excluded_set}

(* the units the call still has to add *)
AugUnitsNeeded == caller_args.max_star_count - caller_args.starting_star_count

(* C13: when the call returns, the starting count plus the unit weights of
   the stars it added is exactly max_star_count. *)
C13_ReturnedCountIsTarget ==
    AugReturned =>
        /\ caller_args.starting_star_count + AugUnitCount(AugAddedStars)
               = caller_args.max_star_count
        /\ caller_results[1].star_count = caller_args.max_star_count

(* C14: every star the call adds is from an allowed location, is in neither
   the included nor the excluded set when added, and requires no more stars
   than the running count at that moment. *)
C14_AddedStarsAreValid ==
    AugEnded =>
        \A k \in 1..Len(caller_results[1].added) :
            LET e == caller_results[1].added[k]
            IN /\ star_locations_dict[e.star_id] \in caller_args.allowed_locations
               /\ e.star_id \notin e.included_set
               /\ e.star_id \notin caller_args.excluded_set
               /\ caller_args.num_stars_required_dict[e.star_id] <= e.star_count
               /\ e.star_count = caller_args.starting_star_count
                                     + AugUnitCount(e.included_set \ caller_args.included_set)

(* C14 witness: a call restricted to the lower levels that skipped an
   included star and added a star from the list and then one from the
   heap. *)
C14_Witness ==
    /\ AugEnded
    /\ caller_args.allowed_locations # ALL_LOCATIONS
    /\ caller_args.included_set # {}
    /\ \E j, k \in 1..Len(caller_results[1].added) :
           /\ j < k
           /\ ~caller_results[1].added[j].from_heap
           /\ caller_results[1].added[k].from_heap

(* what C15 says apart from its count of the candidates: a call that ends
   short of max_star_count raises, it raises only with the list exhausted
   and no entry of the heap within reach, and it raises with nothing added
   when every candidate requires more stars than the starting count *)
AugRaisesWhenExhausted ==
    /\ AugReturned => caller_results[1].star_count >= caller_args.max_star_count
    /\ AugRaised =>
           /\ caller_results[1].star_count < caller_args.max_star_count
           /\ caller_results[1].idx = Len(caller_args.star_time_tuples)
           /\ \A h \in caller_results[1].heap : h[1] > caller_results[1].star_count
    /\ (/\ AugEnded
        /\ AugUnitsNeeded > 0
        /\ \A id \in AugCandidates :
               caller_args.num_stars_required_dict[id] > caller_args.starting_star_count)
           => AugRaised /\ caller_results[1].added = <<>>

(* C15: InsufficientRemainingStars is raised whenever the list is exhausted
   before the count reaches max_star_count, in particular whenever there are
   fewer candidates than units still needed, and when the candidates left
   are on the heap with requirements above the count. *)
C15_RaisesWhenInsufficient ==
    /\ AugRaisesWhenExhausted
    /\ (AugEnded /\ Cardinality(AugCandidates) < AugUnitsNeeded) => AugRaised

(* C15 as amended: the candidates are counted in units, a 100 coin star
   counting 2. *)
C15_RaisesWhenInsufficientAmended ==
    /\ AugRaisesWhenExhausted
    /\ (AugEnded /\ AugUnitCount(AugCandidates) < AugUnitsNeeded) => AugRaised

(* C15 witness: a call that added a star and then raised with the list
   exhausted and a candidate left on the heap, although the candidates
   weigh as many units as were needed. *)
C15_Witness ==
    /\ AugRaised
    /\ caller_results[1].added # <<>>
    /\ caller_results[1].heap # {}
    /\ AugUnitCount(AugCandidates) >= AugUnitsNeeded

-----------------------------------------------------------------------------
(* the second of two calls of get_optimal_route has ended *)
SecondCallEnded == pc \in {"returned", "raised"} /\ Len(caller_results) = 1

(* C16: two calls of get_optimal_route with the same arguments end the same
   way and, when they return, with the same total cost. *)
C16_SameCostTwice ==
    SecondCallEnded =>
        /\ pc = caller_results[1].outcome
        /\ pc = "returned" => best_time = caller_results[1].time

-----------------------------------------------------------------------------
(* the n stars of S with the lowest recorded times *)
LowestCost(n, S) ==
    {id \in S : Cardinality({o \in S : RecordedTime(o) < RecordedTime(id)}) < n}

(* get_optimal_route has ended, by return or by NoValidRoutePossible *)
CallEnded == pc \in {"returned", "raised"}

(* C17: without prerequisites and alternates, with the quota at
   NUM_STARS_IN_ROUTE and more than NUM_STARS_IN_ROUTE eligible stars of
   distinct costs, get_optimal_route returns exactly the
   NUM_STARS_IN_ROUTE eligible stars of lowest cost. *)
C17_ReturnsLowestCost ==
    CallEnded =>
        /\ Returned
        /\ best_star_ids_set = LowestCost(NUM_STARS_IN_ROUTE, EligibleStars)

(* C17 as amended: the call raises NoValidRoutePossible when DDD1 is not
   eligible; when DDD1 is eligible and no eligible star requires stars, it
   returns DDD1 and the other NUM_STARS_IN_ROUTE - 1 eligible stars of
   lowest cost. *)
C17_ReturnsRootAndLowestCostAmended ==
    CallEnded =>
        /\ STAR_DDD1_ID \notin EligibleStars => pc = "raised"
        /\ (/\ STAR_DDD1_ID \in EligibleStars
            /\ \A id \in EligibleStars : num_stars_required_dict[id] = 0)
               => /\ Returned
                  /\ best_star_ids_set =
                         {STAR_DDD1_ID}
                             \cup LowestCost(NUM_STARS_IN_ROUTE - 1,
                                             EligibleStars \ {STAR_DDD1_ID})

(* C17 witness: a route returned with DDD1, the most expensive of the
   eligible stars, none of which requires stars. *)
C17_Witness ==
    /\ Returned
    /\ Cardinality(EligibleStars) > NUM_STARS_IN_ROUTE
    /\ \A id \in EligibleStars : num_stars_required_dict[id] = 0
    /\ STAR_DDD1_ID \in best_star_ids_set
    /\ STAR_DDD1_ID \notin LowestCost(Cardinality(EligibleStars) - 1, EligibleStars)
    /\ adjacency_list_dict = <<>> /\ base_star_alts_dict = <<>>
    /\ max_num_upper_level_stars = NUM_STARS_IN_ROUTE

-----------------------------------------------------------------------------
(* the prerequisites of a star: the keys of the adjacency mapping that list
   it as a dependant *)
Prerequisites(id) ==
    {adjacency_list_dict[i].key :
        i \in {j \in 1..Len(adjacency_list_dict) : id \in Range(adjacency_list_dict[j].value)}}

(* C18: every star of a returned selection is eligible, and each of its
   prerequisites, or the prerequisite's alternate, is selected too. *)
C18_PrerequisitesSelected ==
    Returned =>
        /\ best_star_ids_set \subseteq EligibleStars
        /\ \A id \in best_star_ids_set :
               \A p \in Prerequisites(id) :
                   \/ p \in best_star_ids_set
                   \/ AlternateOf(p) # None /\ AlternateOf(p) \in best_star_ids_set

(* C18 witness: a returned route with a chain of three stars, each the
   prerequisite of the next, the last one added by the greedy
   augmentation, after a trial on a partition that excluded that star. *)
C18_Witness ==
    /\ Returned
    /\ \E id \in best_star_ids_set :
           /\ \E p \in Prerequisites(id) :
                  /\ p \in best_star_ids_set
                  /\ \E q \in Prerequisites(p) : q \in best_star_ids_set
           /\ \E i \in 1..Len(trials) : id \in trials[i].excluded
           /\ \E i \in 1..Len(trials) :
                  /\ trials[i].star_ids_set = best_star_ids_set
                  /\ id \notin trials[i].included

-----------------------------------------------------------------------------
(* What the claims on the helpers speak of *)

(* the keys of the adjacency mapping passed to the helper *)
GraphKeys ==
    {caller_args.adjacency_list_dict[i].key : i \in 1..Len(caller_args.adjacency_list_dict)}

(* the dependants of a star under that mapping *)
GraphDependants(id) ==
    UNION {Range(caller_args.adjacency_list_dict[i].value) :
               i \in {j \in 1..Len(caller_args.adjacency_list_dict) :
                          caller_args.adjacency_list_dict[j].key = id}}

(* the stars reached from frontier through the mapping *)
RECURSIVE GraphReach(_, _)
GraphReach(frontier, seen) ==
    LET next == (UNION {GraphDependants(id) : id \in frontier}) \ seen
    IN IF next = {} THEN seen ELSE GraphReach(next, seen \cup next)

GraphDescendants(id) == GraphReach({id}, {})

(* the alternates of the stars of X under the mapping passed to the helper *)
GraphAlternatesOf(X) ==
    {caller_args.base_star_alts_dict[i].value :
        i \in {j \in 1..Len(caller_args.base_star_alts_dict) :
                   caller_args.base_star_alts_dict[j].key \in X}}

Sorted ==
    /\ Len(caller_results) = 1
    /\ caller_results[1].function = "get_topological_sort_of_prerequisites"

DescendantsFound ==
    /\ Len(caller_results) = 1
    /\ caller_results[1].function = "find_descendants"

(* C19: the topological sort of an acyclic adjacency mapping holds every
   key of the mapping exactly once and nothing else, every key before the
   keys among its transitive descendants. *)
C19_TopologicalSort ==
    Sorted =>
        LET stack == caller_results[1].value
        IN /\ Range(stack) = GraphKeys
           /\ Len(stack) = Cardinality(GraphKeys)
           /\ \A i, j \in 1..Len(stack) :
                  stack[j] \in GraphDescendants(stack[i]) => i < j

(* C19 witness: a sort of three keys or more, one a descendant of another,
   that is not the order of the keys in the mapping. *)
C19_Witness ==
    /\ Sorted
    /\ Len(caller_results[1].value) >= 3
    /\ caller_results[1].value # DictKeys(caller_args.adjacency_list_dict)
    /\ \E a, b \in GraphKeys : b \in GraphDescendants(a)

(* C20: find_descendants returns the ids reached from the id through the
   adjacency mapping, without the id itself, and the alternate of each of
   them that has one; an id that is no key of the mapping yields the empty
   set. *)
C20_FindDescendants ==
    DescendantsFound =>
        LET id == caller_results[1].star_id
            value == caller_results[1].value
        IN /\ value = GraphDescendants(id) \cup GraphAlternatesOf(GraphDescendants(id))
           /\ id \notin value
           /\ id \notin GraphKeys => value = {}

(* C20 witness: the descendants of a key, one of them not a dependant of
   the key itself, and with them the alternate of a descendant. *)
C20_Witness ==
    /\ DescendantsFound
    /\ caller_results[1].star_id \in GraphKeys
    /\ caller_results[1].value \cap All100CoinStarIds # {}
    /\ \E d \in caller_results[1].value \ All100CoinStarIds :
           d \notin GraphDependants(caller_results[1].star_id)

-----------------------------------------------------------------------------
(* What the claims on _generate_valid_partitions_recursive speak of *)

(* what the recursion reads from the call of
   get_valid_special_star_partitions that get_optimal_route made *)
GeneratorContext ==
    [ordered |-> ordered_base_special_stars(adjacency_list_dict, base_star_alts_dict),
     adj |-> adjacency_list_dict,
     alts |-> base_star_alts_dict,
     eligible_stars |-> DOMAIN star_times_dict]

(* the pairs <<included, excluded>> the recursion was called with at
   star_idx, in the order of the calls: what it would have appended had the
   list of special stars ended there *)
RecursiveCallsAt(star_idx) ==
    RootBranches([GeneratorContext EXCEPT !.ordered = SubSeq(@, 1, star_idx)],
                 get_star_and_alternative_id_pairs(
                     STAR_DDD1_ID, {}, base_star_alts_dict, DOMAIN star_times_dict),
                 1)

(* C21: when DDD1 is in the ordered list of special stars, the recursion
   skips it: what a call at the position of DDD1 appends is exactly what the
   call at the next position with the same included and excluded sets
   appends. *)
C21_RootSkipped ==
    PartitionsReturned =>
        \A star_idx \in 0..(Len(GeneratorContext.ordered) - 1) :
            GeneratorContext.ordered[star_idx + 1] = STAR_DDD1_ID =>
                \A c \in Range(RecursiveCallsAt(star_idx)) :
                    generate_valid_partitions_recursive(
                        GeneratorContext, star_idx, c[1], c[2])
                    = generate_valid_partitions_recursive(
                          GeneratorContext, star_idx + 1, c[1], c[2])

-----------------------------------------------------------------------------
(* C22: a partition whose included set holds more units from the upper
   levels than max_num_upper_level_stars, a 100 coin star counting 2, is
   skipped: the loop moves on without a call of
   add_non_special_stars_to_star_set, and the trial leaves the best route
   as it was. *)
C22_OverQuotaPartitionSkipped ==
    \A i \in 1..Len(trials) :
        UpperLevelUnits(trials[i].included) > max_num_upper_level_stars =>
            /\ trials[i].status = "skipped"
            /\ trials[i].star_ids_set = trials[i].included
            /\ trials[i].phase = 0

-----------------------------------------------------------------------------
(* the pairs _get_star_and_alternative_id_pairs offers to a call of the
   recursion at star_idx with the excluded set of that call *)
PairsOfferedAt(star_idx, excluded) ==
    Range(get_star_and_alternative_id_pairs(
              GeneratorContext.ordered[star_idx + 1], excluded,
              base_star_alts_dict, DOMAIN star_times_dict))

(* C23: the included set of every returned partition holds eligible stars
   only, and on no path of the recursion is a star added to included that
   an earlier decision of the path had put in excluded: every star offered
   for inclusion to a call is eligible and outside the excluded set the
   call has received. *)
C23_IncludedEligibleNotExcluded ==
    PartitionsReturned =>
        /\ \A i \in 1..Len(valid_partitions) : valid_partitions[i][1] \subseteq EligibleStars
        /\ \A star_idx \in 0..(Len(GeneratorContext.ordered) - 1) :
               \A c \in Range(RecursiveCallsAt(star_idx)) :
                   /\ c[1] \subseteq EligibleStars
                   /\ \A pair \in PairsOfferedAt(star_idx, c[2]) :
                          pair[1] \in EligibleStars /\ pair[1] \notin c[2]

(* C23 witness: a call of the recursion for a star other than DDD1 that is
   eligible and was excluded as the descendant of a star excluded earlier on
   the path, and another call for the same star in which it is offered. *)
C23_Witness ==
    /\ PartitionsReturned
    /\ \E star_idx \in 0..(Len(GeneratorContext.ordered) - 1) :
           /\ GeneratorContext.ordered[star_idx + 1] # STAR_DDD1_ID
           /\ \E c, d \in Range(RecursiveCallsAt(star_idx)) :
                  /\ GeneratorContext.ordered[star_idx + 1] \in EligibleStars \cap c[2]
                  /\ PairsOfferedAt(star_idx, c[2]) = {}
                  /\ PairsOfferedAt(star_idx, d[2]) # {}

-----------------------------------------------------------------------------
(* the trials in which both calls of add_non_special_stars_to_star_set
   returned *)
CompletedTrials == {i \in 1..Len(trials) : trials[i].status = "completed"}

(* C24: get_optimal_route returns the least total time of the completed
   trials, with the final set of the first trial, in the order of the
   partitions, that has that time: a later trial of equal time does not
   replace it. *)
C24_ReturnsFirstMinimum ==
    Returned =>
        \E i \in CompletedTrials :
            /\ \A j \in CompletedTrials :
                   /\ trials[i].total_time <= trials[j].total_time
                   /\ trials[j].total_time = trials[i].total_time => i <= j
            /\ best_time = trials[i].total_time
            /\ best_star_ids_set = trials[i].star_ids_set

(* C24 witness: a returned route whose time a later completed trial reached
   too, with another set of stars, after an earlier completed trial of a
   longer time. *)
C24_Witness ==
    /\ Returned
    /\ \E h, i, j \in CompletedTrials :
           /\ h < i /\ i < j
           /\ trials[h].total_time > trials[i].total_time
           /\ trials[j].total_time = trials[i].total_time
           /\ trials[j].star_ids_set # trials[i].star_ids_set
           /\ best_time = trials[i].total_time
           /\ best_star_ids_set = trials[i].star_ids_set

-----------------------------------------------------------------------------
(* the stars reached from frontier through the adjacency lists adj *)
RECURSIVE ReachUnder(_, _, _)
ReachUnder(adj, frontier, seen) ==
    LET next == (UNION {Range(adj[i].value) :
                            i \in {j \in 1..Len(adj) : adj[j].key \in frontier}}) \ seen
    IN IF next = {} THEN seen ELSE ReachUnder(adj, next, seen \cup next)

(* the descendants of a star under adj, with the descendants' alternates *)
DescendantsUnder(adj, id) ==
    ReachUnder(adj, {id}, {}) \cup GraphAlternatesOf(ReachUnder(adj, {id}, {}))

(* both calls of find_descendants have returned *)
CalledTwice ==
    /\ caller_args.function = "find_descendants"
    /\ pc = "returned"
    /\ Len(caller_results) = 2

(* C25: the cache of find_descendants survives the call: the second call,
   for the same star under other adjacency lists, returns the set computed
   for the first. *)
C25_SecondCallReturnsCached ==
    CalledTwice => caller_results[2] = caller_results[1]

(* C25 as amended: the cache does not survive the call: the second call
   returns the descendants of the star under the adjacency lists it was
   given, as the first call did for its own. *)
C25_SecondCallRecomputesAmended ==
    CalledTwice =>
        /\ caller_results[1]
               = DescendantsUnder(caller_args.adjacency_list_dict, caller_args.star_id)
        /\ caller_results[2]
               = DescendantsUnder(caller_args.later_adjacency_list_dict, caller_args.star_id)

(* C25 witness: two calls for a star that has descendants under both
   adjacency lists, among them an alternate, and not the same ones. *)
C25_Witness ==
    /\ CalledTwice
    /\ caller_results[1] # {} /\ caller_results[2] # {}
    /\ caller_results[1] # caller_results[2]
    /\ caller_results[1] \cap All100CoinStarIds # {}

-----------------------------------------------------------------------------
(* C26: every call of add_non_special_stars_to_star_set ends, by return or
   by InsufficientRemainingStars: star_time_tuples_idx never goes back, an
   iteration of the outer loop that does not raise adds one star and
   increases star_count, and an iteration raises only with the list
   exhausted. *)
C26_AugmenterTerminates ==
    /\ [][(pc = "while" /\ pc' = "while") =>
              /\ caller_results'[1].star_time_tuples_idx >= AugLocals.star_time_tuples_idx
              /\ caller_results'[1].star_count > AugLocals.star_count
              /\ AugLocals.included_set \subseteq caller_results'[1].included_set
              /\ Cardinality(caller_results'[1].included_set)
                     = Cardinality(AugLocals.included_set) + 1]_vars
    /\ [][(pc = "while" /\ pc' = "raised") =>
              /\ caller_results'[1].star_time_tuples_idx >= AugLocals.star_time_tuples_idx
              /\ caller_results'[1].star_time_tuples_idx = Len(caller_args.star_time_tuples)
              /\ caller_results'[1].star_count = AugLocals.star_count]_vars
    /\ <>(pc \in {"returned", "raised"})

(* C26 witness: a call that returned after an iteration that took its star
   from the heap, the index staying where it was, and iterations before it
   that took theirs from the list. *)
C26_Witness ==
    /\ pc = "returned"
    /\ caller_args.function = "add_non_special_stars_to_star_set"
    /\ AugLocals.from_heap
    /\ Cardinality(AugLocals.included_set) >= 3
    /\ AugLocals.star_time_tuples_idx < Len(caller_args.star_time_tuples)

-----------------------------------------------------------------------------
(* the eligible special stars: the eligible prerequisites, the eligible base
   stars with an alternate, and the eligible alternates *)
EligibleSpecialStars == (SpecialBaseItems \cup Alternates) \cap EligibleStars

(* the stars a trial's calls of add_non_special_stars_to_star_set added *)
AddedInTrial(i) == trials[i].star_ids_set \ trials[i].included

(* C27: every returned partition has every eligible special star in its
   included or its excluded set, and so the calls of
   add_non_special_stars_to_star_set in get_optimal_route add stars of unit
   weight 1 only. *)
C27_SpecialStarsDecided ==
    /\ pc # "start" =>
           \A i \in 1..Len(valid_partitions) :
               EligibleSpecialStars \subseteq valid_partitions[i][1] \cup valid_partitions[i][2]
    /\ \A i \in 1..Len(trials) :
           /\ AddedInTrial(i) \cap (SpecialBaseItems \cup Alternates) = {}
           /\ \A id \in AddedInTrial(i) : UnitWeight(id) = 1

(* C27 witness: a completed trial on a partition that excluded an eligible
   alternate and an eligible prerequisite, in which stars were added. *)
C27_Witness ==
    \E i \in 1..Len(trials) :
        /\ trials[i].status = "completed"
        /\ AddedInTrial(i) # {}
        /\ trials[i].excluded \cap Alternates \cap EligibleStars # {}
        /\ \E id \in trials[i].excluded \cap EligibleStars : Dependants(id) # {}

-----------------------------------------------------------------------------
(* C28: every returned selection can be collected in some order in which
   each star requires no more stars than the units collected before it, the
   special stars of the partition included. *)
C28_ReturnedCollectable ==
    Returned => CanCollect(0, best_star_ids_set)

-----------------------------------------------------------------------------
(* C29: no two entries of the list get_valid_special_star_partitions
   returns are the same pair of included and excluded sets, DDD1 being in
   the ordered list of special stars or not. *)
C29_PartitionsDistinct ==
    PartitionsReturned =>
        \A i, j \in 1..Len(valid_partitions) :
            i # j => valid_partitions[i] # valid_partitions[j]

-----------------------------------------------------------------------------
(* the trials in which the first call of add_non_special_stars_to_star_set
   returned and the second call was made *)
TrialsWithSecondCall == {i \in 1..Len(trials) : trials[i].phase = 2}

(* C30: the starting star count handed to the second call,
   max(starting_star_count, star_count_to_reach_from_non_upper_levels), is
   the unit count of the set the first call returned. *)
C30_SecondStartIsCountOfFirst ==
    \A i \in TrialsWithSecondCall :
        /\ trials[i].second_starting_star_count
               = Max2(trials[i].starting_star_count,
                      (NUM_STARS_IN_ROUTE - max_num_upper_level_stars)
                          + trials[i].num_upper_level_stars)
        /\ trials[i].second_starting_star_count = UnitCount(trials[i].first_star_ids_set)

(* C30 witness: a completed trial on a partition with a 100 coin star (two
   units) in which the first call added a star before the second call ran. *)
C30_Witness ==
    \E i \in TrialsWithSecondCall :
        /\ trials[i].included \cap Alternates # {}
        /\ trials[i].first_star_ids_set # trials[i].included
        /\ trials[i].status = "completed"

====
